---- MODULE Spec2Model ----
(***************************************************************************)
(* ACSAMS: the persistence layer of the access-management backend          *)
(* (src/mongo_driver.py), the subscription route (src/main.py) and the     *)
(* endpoint guard (src/endpoint_calls.py), as a state machine over the     *)
(* three MongoDB collections permissions, plans and users.                 *)
(*                                                                         *)
(* An identifier string is a pair <<oid, form>>: the 12-byte value it      *)
(* denotes and the way it is spelled.  bson's ObjectId(s) accepts the 24   *)
(* hex digits in either letter case and str(ObjectId) prints lower case,   *)
(* so two strings can denote one ObjectId.                                 *)
(***************************************************************************)
EXTENDS Integers, FiniteSets, Sequences, TLC

\* ------------------------------------------------------------------ bounds
MaxOid == 4        \* ObjectIds in use at one time (users hold 1 and 2)
MaxKeys == 2       \* entries of an apilimit / usage table a request carries
MaxLimit == 1      \* largest call ceiling a request carries
NumCallers == 3    \* concurrent recordUsage callers of SpecConc
NumTasks == 2      \* concurrent requests of SpecRace
MaxUsage == MaxLimit + 1   \* cap of a usage counter: one call past the ceiling

\* ------------------------------------------------------------- identifiers
Forms == {"lower", "upper"}
Malformed == <<0, "bad">>     \* a string ObjectId() rejects, e.g. "permissionId"
NoneId == <<0, "none">>       \* Python None in an Optional[str] field
UnknownOid == MaxOid + 1      \* a well-formed id the store never assigned

\* bson.ObjectId(s): the value a well-formed string denotes
ObjectId(s) == s[1]

\* str(ObjectId): 24 lower-case hex digits
Str(oid) == <<oid, "lower">>

\* trycastobjectId raises HTTPException(400) on InvalidId
InvalidId(s) == s[2] \notin Forms

trycastobjectId(id) == IF InvalidId(id) THEN 0 ELSE ObjectId(id)

Spellings(S) == {<<o, f>> : o \in S, f \in Forms}

\* ------------------------------------------------------------------- state
VARIABLES
    permissions,   \* permissions collection: ObjectId -> [name, endpoint, description]
    plans,         \* plans collection: ObjectId -> [name, apilimit]
    users,         \* users collection: ObjectId -> [role, subscribed_plan_id, current_api_usage]
    last,          \* the operation that ran last and what it returned
    calls          \* in-flight request coroutines and their local variables

store == <<permissions, plans, users>>
vars == <<permissions, plans, users, last, calls>>

Endpoints == {"random1", "random2"}   \* API_Endpoint_Enum members in play
PermNames == {"RandomAPI1"}
Descriptions == {"RandomAPI1 description"}
PlanNames == {"RandomAPIPlan1"}
Limits == 1..MaxLimit

\* Optional[Dict[str, int]]: None, or a dict
Absent == [some |-> FALSE, m |-> <<>>]
Some(m) == [some |-> TRUE, m |-> m]

\* all dicts with at most MaxKeys keys drawn from K and values from V
Dicts(K, V) ==
    UNION {[D -> V] : D \in {D \in SUBSET K : Cardinality(D) <= MaxKeys}}

UserOids == {1, 2}
RoleOf(o) == IF o = 1 THEN "user" ELSE "admin"

\* a request coroutine that has not been called.  pc is the await it is
\* suspended at, op the operation, id and plan_id the identifiers the caller
\* supplied; uid and user, user_found_by_id, perm and endpoint, permission,
\* plan and keys are its local variables; accessed tells whether it has
\* issued a store command; res is what it returned
Idle == [pc |-> "idle", op |-> "", id |-> NoneId, plan_id |-> NoneId,
         uid |-> NoneId, perm |-> NoneId, endpoint |-> "",
         user |-> [role |-> "", subscribed_plan_id |-> NoneId, current_api_usage |-> Absent],
         user_found_by_id |-> [role |-> "", subscribed_plan_id |-> NoneId,
                               current_api_usage |-> Absent],
         permission |-> [name |-> "", endpoint |-> "", description |-> ""],
         plan |-> [name |-> "", apilimit |-> <<>>], keys |-> {},
         accessed |-> FALSE, res |-> ""]

Init ==
    /\ permissions = <<>>
    /\ plans = <<>>
    /\ users = [o \in UserOids |->
                  [role |-> RoleOf(o), subscribed_plan_id |-> NoneId,
                   current_api_usage |-> Absent]]
    /\ last = [op |-> "init", res |-> "OK"]
    /\ calls = [c \in 1..NumCallers |-> Idle]

\* an operation returns res and writes nothing
Fail(op, res) ==
    /\ last' = [op |-> op, res |-> res]
    /\ UNCHANGED store

\* ObjectIds some document holds or mentions
OidsInUse ==
    DOMAIN permissions \cup DOMAIN plans \cup DOMAIN users
        \cup UNION {{k[1] : k \in DOMAIN plans[p].apilimit} : p \in DOMAIN plans}
        \cup {users[u].subscribed_plan_id[1] : u \in DOMAIN users}
        \cup UNION {{k[1] : k \in DOMAIN users[u].current_api_usage.m} : u \in DOMAIN users}
        \cup UNION {{calls[c].uid[1], calls[c].perm[1], calls[c].user.subscribed_plan_id[1],
                      calls[c].id[1], calls[c].plan_id[1],
                      calls[c].user_found_by_id.subscribed_plan_id[1]}
                       \cup {k[1] : k \in DOMAIN calls[c].user.current_api_usage.m}
                       \cup {k[1] : k \in DOMAIN calls[c].user_found_by_id.current_api_usage.m}
                       \cup {k[1] : k \in DOMAIN calls[c].plan.apilimit}
                    : c \in DOMAIN calls}

\* the ObjectId insert_one assigns: ObjectIds are opaque and never repeat, so
\* the least value nothing holds or mentions stands for a fresh one
nextOid == CHOOSE o \in 1..(MaxOid + 1) :
    /\ o \notin OidsInUse \/ o = MaxOid + 1
    /\ \A x \in 1..(o - 1) : x \in OidsInUse

Remove(f, o) == [x \in DOMAIN f \ {o} |-> f[x]]

\* ------------------------------------------------------ permission methods
\* permissions_collection.find_one({"endpoint": endpoint.value})
get_permission_by_endpoint_from_MongoDB(endpoint) ==
    {o \in DOMAIN permissions : permissions[o].endpoint = endpoint}

\* plans_collection.find_one({f"apilimit.{ObjectId}": {"$exists": True}})
used_by_existing_plan(oid) ==
    {p \in DOMAIN plans : Str(oid) \in DOMAIN plans[p].apilimit}

\* mutant: the endpoint lookup of lines 78-80 left out
add_permission_unchecked(permission) ==
    /\ nextOid <= MaxOid
    /\ permissions' = permissions @@ (nextOid :> permission)
    /\ last' = [op |-> "createPermission", res |-> "OK"]
    /\ UNCHANGED <<plans, users>>

add_permission_to_MongoDB(permission) ==
    IF get_permission_by_endpoint_from_MongoDB(permission.endpoint) # {}
    THEN Fail("createPermission", "DuplicateEndpoint")
    ELSE /\ nextOid <= MaxOid
         /\ permissions' = permissions @@ (nextOid :> permission)
         /\ last' = [op |-> "createPermission", res |-> "OK"]
         /\ UNCHANGED <<plans, users>>

modify_permission_to_MongoDB(id, permission) ==
    IF InvalidId(id) THEN Fail("updatePermission", "InvalidIdentifier")
    ELSE IF trycastobjectId(id) \notin DOMAIN permissions
    THEN Fail("updatePermission", "NotFound")
    ELSE IF used_by_existing_plan(trycastobjectId(id)) # {}
    THEN Fail("updatePermission", "PermissionInUse")
    ELSE IF /\ permissions[trycastobjectId(id)].endpoint # permission.endpoint
            /\ get_permission_by_endpoint_from_MongoDB(permission.endpoint) # {}
    THEN Fail("updatePermission", "DuplicateEndpoint")
    ELSE /\ permissions' = [permissions EXCEPT ![trycastobjectId(id)] = permission]
         /\ last' = [op |-> "updatePermission", res |-> "OK"]
         /\ UNCHANGED <<plans, users>>

delete_permission_in_MongoDB(id) ==
    IF InvalidId(id) THEN Fail("deletePermission", "InvalidIdentifier")
    ELSE IF used_by_existing_plan(trycastobjectId(id)) # {}
    THEN Fail("deletePermission", "PermissionInUse")
    ELSE IF trycastobjectId(id) \notin DOMAIN permissions
    THEN Fail("deletePermission", "NotFound")
    ELSE /\ permissions' = Remove(permissions, trycastobjectId(id))
         /\ last' = [op |-> "deletePermission", res |-> "OK"]
         /\ UNCHANGED <<plans, users>>

PermissionInputs == [name : PermNames, endpoint : Endpoints, description : Descriptions]

\* the JSON bodies of PUT /permissions/{permissionId}: any of the fields may
\* be left out
PermissionBodies ==
    LET fields == [name |-> PermNames, endpoint |-> Endpoints,
                   description |-> Descriptions] IN
    UNION {{b \in [F -> UNION {fields[f] : f \in F}] : \A f \in F : b[f] \in fields[f]}
           : F \in SUBSET DOMAIN fields}

\* UpdateAPIPermission(**body): pydantic gives a field the body leaves out
\* the default of the model
UpdateAPIPermission(body) ==
    [name |-> IF "name" \in DOMAIN body THEN body.name ELSE "RandomAPI1",
     endpoint |-> IF "endpoint" \in DOMAIN body THEN body.endpoint ELSE "random1",
     description |-> IF "description" \in DOMAIN body THEN body.description
                     ELSE "RandomAPI1 description"]
PermIdInputs == Spellings(DOMAIN permissions) \cup {Str(UnknownOid), Malformed}

CreatePermission ==
    /\ UNCHANGED calls
    /\ \E p \in PermissionInputs : add_permission_to_MongoDB(p)
UpdatePermission ==
    /\ UNCHANGED calls
    /\ \E id \in PermIdInputs, body \in PermissionBodies :
           modify_permission_to_MongoDB(id, UpdateAPIPermission(body))
DeletePermission ==
    /\ UNCHANGED calls
    /\ \E id \in PermIdInputs : delete_permission_in_MongoDB(id)

\* ------------------------------------------------------------ plan methods
\* the keys the loop "for permission_id in plan.apilimit.keys()" raises on
BadKeys(apilimit) ==
    {k \in DOMAIN apilimit : InvalidId(k) \/ trycastobjectId(k) \notin DOMAIN permissions}

\* what the loop raises on key k: trycastobjectId's 400, or "doesn't exist"
KeyFailure(k) == IF InvalidId(k) THEN "InvalidIdentifier" ELSE "UnknownPermission"

\* user_collection.find_one({"subscribed_plan_id": f"{id}"})
\* mutant: any subscribed user blocks the plan
used_by_existing_user_any_plan(id) ==
    {u \in DOMAIN users : users[u].subscribed_plan_id # NoneId}

used_by_existing_user(id) ==
    {u \in DOMAIN users : users[u].subscribed_plan_id = id}

\* what get_plan_by_id_MongoDB raises, "OK" when it returns the plan
get_plan_by_id_MongoDB(id) ==
    IF InvalidId(id) THEN "InvalidIdentifier"
    ELSE IF trycastobjectId(id) \notin DOMAIN plans THEN "NotFound"
    ELSE "OK"

\* mutant: the length test of lines 160-161 left out
add_plan_unsized(plan) ==
    IF BadKeys(plan.apilimit) # {}
    THEN \E k \in BadKeys(plan.apilimit) : Fail("createPlan", KeyFailure(k))
    ELSE /\ nextOid <= MaxOid
         /\ plans' = plans @@ (nextOid :> plan)
         /\ last' = [op |-> "createPlan", res |-> "OK"]
         /\ UNCHANGED <<permissions, users>>

\* the dict order of the request decides which bad key the loop meets first
add_plan_to_MongoDB(plan) ==
    IF DOMAIN plan.apilimit = {} THEN Fail("createPlan", "EmptyLimitTable")
    ELSE IF BadKeys(plan.apilimit) # {}
    THEN \E k \in BadKeys(plan.apilimit) : Fail("createPlan", KeyFailure(k))
    ELSE /\ nextOid <= MaxOid
         /\ plans' = plans @@ (nextOid :> plan)
         /\ last' = [op |-> "createPlan", res |-> "OK"]
         /\ UNCHANGED <<permissions, users>>

\* mutant: the $set of lines 205-209 runs before the key loop of lines 195-198
modify_plan_write_first(id, plan) ==
    IF get_plan_by_id_MongoDB(id) # "OK"
    THEN Fail("updatePlan", get_plan_by_id_MongoDB(id))
    ELSE IF used_by_existing_user(id) # {} THEN Fail("updatePlan", "PlanInUse")
    ELSE /\ plans' = [plans EXCEPT ![trycastobjectId(id)] = plan]
         /\ \/ /\ BadKeys(plan.apilimit) = {}
               /\ last' = [op |-> "updatePlan", res |-> "OK"]
            \/ \E k \in BadKeys(plan.apilimit) :
                  last' = [op |-> "updatePlan", res |-> KeyFailure(k)]
         /\ UNCHANGED <<permissions, users>>

modify_plan_to_MongoDB(id, plan) ==
    IF get_plan_by_id_MongoDB(id) # "OK"
    THEN Fail("updatePlan", get_plan_by_id_MongoDB(id))
    ELSE IF used_by_existing_user(id) # {} THEN Fail("updatePlan", "PlanInUse")
    ELSE IF BadKeys(plan.apilimit) # {}
    THEN \E k \in BadKeys(plan.apilimit) : Fail("updatePlan", KeyFailure(k))
    ELSE /\ plans' = [plans EXCEPT ![trycastobjectId(id)] = plan]
         /\ last' = [op |-> "updatePlan", res |-> "OK"]
         /\ UNCHANGED <<permissions, users>>

\* mutant: the subscribed-user lookup of lines 219-222 left out
delete_plan_unguarded(id) ==
    IF InvalidId(id) THEN Fail("deletePlan", "InvalidIdentifier")
    ELSE IF trycastobjectId(id) \notin DOMAIN plans THEN Fail("deletePlan", "NotFound")
    ELSE /\ plans' = Remove(plans, trycastobjectId(id))
         /\ last' = [op |-> "deletePlan", res |-> "OK"]
         /\ UNCHANGED <<permissions, users>>

delete_plan_in_MongoDB(id) ==
    IF used_by_existing_user(id) # {} THEN Fail("deletePlan", "PlanInUse")
    ELSE IF InvalidId(id) THEN Fail("deletePlan", "InvalidIdentifier")
    ELSE IF trycastobjectId(id) \notin DOMAIN plans THEN Fail("deletePlan", "NotFound")
    ELSE /\ plans' = Remove(plans, trycastobjectId(id))
         /\ last' = [op |-> "deletePlan", res |-> "OK"]
         /\ UNCHANGED <<permissions, users>>

KeyInputs == Spellings(DOMAIN permissions) \cup {Str(UnknownOid), Malformed}
PlanInputs == [name : PlanNames, apilimit : Dicts(KeyInputs, Limits)]

\* the JSON bodies of PUT /plans/{planId}
PlanBodies ==
    {<<>>} \cup {[name |-> n] : n \in PlanNames}
        \cup {[apilimit |-> a] : a \in Dicts(KeyInputs, Limits)}
        \cup PlanInputs

\* UpdateAPIPlan(**body): the default apilimit is {"permissionId": 10}
UpdateAPIPlan(body) ==
    [name |-> IF "name" \in DOMAIN body THEN body.name ELSE "RandomAPIPlan1",
     apilimit |-> IF "apilimit" \in DOMAIN body THEN body.apilimit
                  ELSE (Malformed :> 10)]

PlanIdInputs ==
    Spellings(DOMAIN plans) \cup {Str(UnknownOid), Malformed}
        \cup ({users[u].subscribed_plan_id : u \in DOMAIN users} \ {NoneId})

CreatePlan ==
    /\ UNCHANGED calls
    /\ \E p \in PlanInputs : add_plan_to_MongoDB(p)
UpdatePlan ==
    /\ UNCHANGED calls
    /\ \E id \in PlanIdInputs, body \in PlanBodies :
           modify_plan_to_MongoDB(id, UpdateAPIPlan(body))
DeletePlan ==
    /\ UNCHANGED calls
    /\ \E id \in PlanIdInputs : delete_plan_in_MongoDB(id)

\* ------------------------------------------------ user subscription handling
\* User(**results): the document of user o as a model object; id is str(_id)
UserObject(o) == [id |-> Str(o)] @@ users[o]

\* mutant: the counters start at the plan's ceilings
ZeroUsage_limits(apilimit) == apilimit

\* {plan_id: 0 for plan_id, _ in existing_plan.apilimit.items()}
ZeroUsage(apilimit) == [k \in DOMAIN apilimit |-> 0]

\* find_one_and_update({"_id": ...}, {"$set": user.model_dump(exclude=["id"])})
SetUser(o, user) ==
    [users EXCEPT ![o] = [role |-> user.role,
                          subscribed_plan_id |-> user.subscribed_plan_id,
                          current_api_usage |-> user.current_api_usage]]

subscribe_to_plan_in_MongoDB(op, plan_id, user) ==
    IF get_plan_by_id_MongoDB(plan_id) # "OK"
    THEN Fail(op, get_plan_by_id_MongoDB(plan_id))
    ELSE IF InvalidId(user.id) THEN Fail(op, "InvalidIdentifier")
    ELSE IF trycastobjectId(user.id) \notin DOMAIN users THEN Fail(op, "NotFound")
    ELSE /\ users' = SetUser(trycastobjectId(user.id),
                [user EXCEPT !.subscribed_plan_id = plan_id,
                             !.current_api_usage =
                                 Some(ZeroUsage(plans[trycastobjectId(plan_id)].apilimit))])
         /\ last' = [op |-> op, res |-> "OK"]
         /\ UNCHANGED <<permissions, plans>>

\* mutant: the route without its CheckedRoleIs(["user"]) dependency
subscribe_plan_any_role(planId, current_user) ==
    subscribe_to_plan_in_MongoDB("subscribe", planId, current_user)

\* the route POST /subscriptions/: CheckedRoleIs(["user"]), then the driver
subscribe_plan(planId, current_user) ==
    IF current_user.role \notin {"user"} THEN Fail("subscribe", "RoleNotEligible")
    ELSE subscribe_to_plan_in_MongoDB("subscribe", planId, current_user)

\* mutant: only the sizes are compared
usage_stats_mismatch_sizes(user, new_usage_stats) ==
    \/ ~new_usage_stats.some
    \/ DOMAIN new_usage_stats.m = {}
    \/ Cardinality(DOMAIN new_usage_stats.m)
           # Cardinality(DOMAIN user.current_api_usage.m)

\* lines 385 and 389-392: an absent or empty table, another size, other keys
usage_stats_mismatch(user, new_usage_stats) ==
    \/ ~new_usage_stats.some
    \/ DOMAIN new_usage_stats.m = {}
    \/ Cardinality(DOMAIN new_usage_stats.m)
           # Cardinality(DOMAIN user.current_api_usage.m)
    \/ DOMAIN user.current_api_usage.m # DOMAIN new_usage_stats.m

\* mutant: a different plan_id keeps the proposed counters
update_user_API_plan_keeps_proposed(user_id, plan_id, new_usage_stats) ==
    IF InvalidId(user_id) THEN Fail("changePlan", "InvalidIdentifier")
    ELSE IF trycastobjectId(user_id) \notin DOMAIN users THEN Fail("changePlan", "NotFound")
    ELSE LET user == UserObject(trycastobjectId(user_id)) IN
    IF user.role # "user" THEN Fail("changePlan", "RoleNotEligible")
    ELSE IF user.subscribed_plan_id = NoneId THEN Fail("changePlan", "NotSubscribed")
    ELSE IF get_plan_by_id_MongoDB(plan_id) # "OK"
    THEN Fail("changePlan", get_plan_by_id_MongoDB(plan_id))
    ELSE IF usage_stats_mismatch(user, new_usage_stats)
    THEN Fail("changePlan", "UsageKeySetMismatch")
    ELSE /\ users' = SetUser(trycastobjectId(user.id),
                [user EXCEPT !.subscribed_plan_id = plan_id,
                             !.current_api_usage = new_usage_stats])
         /\ last' = [op |-> "changePlan", res |-> "OK"]
         /\ UNCHANGED <<permissions, plans>>

\* mutant: without the test of lines 377-378
update_user_API_plan_unsubscribed(user_id, plan_id, new_usage_stats) ==
    IF InvalidId(user_id) THEN Fail("changePlan", "InvalidIdentifier")
    ELSE IF trycastobjectId(user_id) \notin DOMAIN users THEN Fail("changePlan", "NotFound")
    ELSE LET user == UserObject(trycastobjectId(user_id)) IN
    IF user.role # "user" THEN Fail("changePlan", "RoleNotEligible")
    ELSE IF user.subscribed_plan_id = plan_id
    THEN IF usage_stats_mismatch(user, new_usage_stats)
         THEN Fail("changePlan", "UsageKeySetMismatch")
         ELSE /\ users' = SetUser(trycastobjectId(user.id),
                     [user EXCEPT !.current_api_usage = new_usage_stats])
              /\ last' = [op |-> "changePlan", res |-> "OK"]
              /\ UNCHANGED <<permissions, plans>>
    ELSE subscribe_to_plan_in_MongoDB("changePlan", plan_id, user)

update_user_API_plan(user_id, plan_id, new_usage_stats) ==
    IF InvalidId(user_id) THEN Fail("changePlan", "InvalidIdentifier")
    ELSE IF trycastobjectId(user_id) \notin DOMAIN users THEN Fail("changePlan", "NotFound")
    ELSE LET user == UserObject(trycastobjectId(user_id)) IN
    IF user.role # "user" THEN Fail("changePlan", "RoleNotEligible")
    ELSE IF user.subscribed_plan_id = NoneId THEN Fail("changePlan", "NotSubscribed")
    ELSE IF user.subscribed_plan_id = plan_id
    THEN IF usage_stats_mismatch(user, new_usage_stats)
         THEN Fail("changePlan", "UsageKeySetMismatch")
         ELSE /\ users' = SetUser(trycastobjectId(user.id),
                     [user EXCEPT !.current_api_usage = new_usage_stats])
              /\ last' = [op |-> "changePlan", res |-> "OK"]
              /\ UNCHANGED <<permissions, plans>>
    ELSE subscribe_to_plan_in_MongoDB("changePlan", plan_id, user)

UserIdInputs == Spellings(DOMAIN users) \cup {Str(UnknownOid), Malformed}
UsageKeyInputs ==
    UNION {DOMAIN users[u].current_api_usage.m : u \in DOMAIN users}
        \cup {Str(UnknownOid)}
UsageInputs == {Absent} \cup {Some(m) : m \in Dicts(UsageKeyInputs, {0, MaxUsage})}

\* the usage table is read only when plan_id is the user's current plan
SamePlan(user_id, plan_id) ==
    /\ ~InvalidId(user_id)
    /\ trycastobjectId(user_id) \in DOMAIN users
    /\ users[trycastobjectId(user_id)].subscribed_plan_id = plan_id
StatsInputs(user_id, plan_id) ==
    IF SamePlan(user_id, plan_id) THEN UsageInputs
    ELSE {Absent, Some(Str(UnknownOid) :> MaxUsage)}
         \cup IF /\ ~InvalidId(user_id)
                 /\ trycastobjectId(user_id) \in DOMAIN users
                 /\ users[trycastobjectId(user_id)].current_api_usage.some
              THEN {Some([k \in DOMAIN users[trycastobjectId(user_id)].current_api_usage.m
                             |-> MaxUsage])}
              ELSE {}

Subscribe ==
    /\ UNCHANGED calls
    /\ \E u \in DOMAIN users, planId \in PlanIdInputs :
           subscribe_plan(planId, UserObject(u))
ChangePlan ==
    /\ UNCHANGED calls
    /\ \E user_id \in UserIdInputs, plan_id \in PlanIdInputs :
           \E stats \in StatsInputs(user_id, plan_id) :
               update_user_API_plan(user_id, plan_id, stats)

\* ------------------------------------------------------------ usage methods
\* mutant: every counter of the table is incremented
Increment_every_counter(user, k) ==
    [user EXCEPT !.current_api_usage =
        Some([j \in DOMAIN user.current_api_usage.m |-> user.current_api_usage.m[j] + 1])]

\* user.current_api_usage[permission.id] += 1
Increment(user, k) ==
    [user EXCEPT !.current_api_usage =
        Some([user.current_api_usage.m EXCEPT ![k] = @ + 1])]

\* line 342 formats user.id of the None it just read: AttributeError; line 346
\* tests membership in a None table: TypeError
update_user_API_usage_in_MongoDB(user_id, permission) ==
    IF InvalidId(user_id) THEN Fail("recordUsage", "InvalidIdentifier")
    ELSE IF trycastobjectId(user_id) \notin DOMAIN users THEN Fail("recordUsage", "Crash")
    ELSE LET user == UserObject(trycastobjectId(user_id)) IN
    IF user.role # "user" THEN Fail("recordUsage", "RoleNotEligible")
    ELSE IF ~user.current_api_usage.some THEN Fail("recordUsage", "Crash")
    ELSE IF \/ permission.id \notin DOMAIN user.current_api_usage.m
            \/ get_permission_by_endpoint_from_MongoDB(permission.endpoint) = {}
    THEN Fail("recordUsage", "NotValidPermission")
    ELSE /\ user.current_api_usage.m[permission.id] < MaxUsage
         /\ users' = SetUser(trycastobjectId(user.id), Increment(user, permission.id))
         /\ last' = [op |-> "recordUsage", res |-> "OK"]
         /\ UNCHANGED <<permissions, plans>>

\* UserHasPermission.__call__: perm.id of a None permission is an
\* AttributeError, apilimit[perm.id] of a missing key a KeyError
UserHasPermission(user, endpoint) ==
    LET perm == get_permission_by_endpoint_from_MongoDB(endpoint) IN
    IF \/ user.subscribed_plan_id = NoneId
       \/ ~user.current_api_usage.some
       \/ DOMAIN user.current_api_usage.m = {}
    THEN Fail("admit", "NotSubscribed")
    ELSE IF perm = {} THEN Fail("admit", "Crash")
    ELSE LET id == Str(CHOOSE o \in perm : TRUE) IN
    IF id \notin DOMAIN user.current_api_usage.m THEN Fail("admit", "PermissionNotInPlan")
    ELSE IF get_plan_by_id_MongoDB(user.subscribed_plan_id) # "OK"
    THEN Fail("admit", get_plan_by_id_MongoDB(user.subscribed_plan_id))
    ELSE IF id \notin DOMAIN plans[trycastobjectId(user.subscribed_plan_id)].apilimit
    THEN Fail("admit", "Crash")
    ELSE Fail("admit", "OK")

PermissionObjects == [id : PermIdInputs, endpoint : Endpoints]

RecordUsage ==
    /\ UNCHANGED calls
    /\ \E user_id \in UserIdInputs, permission \in PermissionObjects :
           update_user_API_usage_in_MongoDB(user_id, permission)
Admit ==
    /\ UNCHANGED calls
    /\ \E u \in DOMAIN users, endpoint \in Endpoints :
           UserHasPermission(UserObject(u), endpoint)

Next ==
    \/ CreatePermission
    \/ UpdatePermission
    \/ DeletePermission
    \/ CreatePlan
    \/ UpdatePlan
    \/ DeletePlan
    \/ Subscribe
    \/ ChangePlan
    \/ RecordUsage
    \/ Admit

Spec == Init /\ [][Next]_vars

\* ------------------------- update_user_API_usage_in_MongoDB, await by await
\* a store the sequential operations reach: one permission, one plan over
\* it, user 1 subscribed with a zero counter
ConcPermission == [id |-> Str(3), endpoint |-> "random1"]

InitConc ==
    /\ permissions = (3 :> [name |-> "RandomAPI1", endpoint |-> "random1",
                            description |-> "RandomAPI1 description"])
    /\ plans = (4 :> [name |-> "RandomAPIPlan1", apilimit |-> (Str(3) :> MaxLimit)])
    /\ users = [o \in UserOids |->
                  IF o = 1
                  THEN [role |-> "user", subscribed_plan_id |-> Str(4),
                        current_api_usage |-> Some(Str(3) :> 0)]
                  ELSE [role |-> RoleOf(o), subscribed_plan_id |-> NoneId,
                        current_api_usage |-> Absent]]
    /\ last = [op |-> "subscribe", res |-> "OK"]
    /\ calls = [c \in 1..NumCallers |-> Idle]

\* one step of coroutine c: upd overrides its local variables
Step(c, upd) == calls' = [calls EXCEPT ![c] = upd @@ @]

\* c raises before the store command of this step is issued
Raised(res) == [pc |-> "done", res |-> res]

\* c issues the store command of this step and returns or raises
Returned(res) == [pc |-> "done", res |-> res, accessed |-> TRUE]

\* c issues the store command of this step and runs on to its next await
Awaited(pc) == [pc |-> pc, accessed |-> TRUE]

\* lines 340-344: await get_user_by_id_from_MongoDB(user.id), role check
FindUser(c, user_id, permission) ==
    /\ calls[c].pc = "idle"
    /\ UNCHANGED <<permissions, plans, users, last>>
    /\ LET args == [op |-> "recordUsage", id |-> user_id, perm |-> permission.id,
                    endpoint |-> permission.endpoint] IN
       IF InvalidId(user_id) THEN Step(c, Raised("InvalidIdentifier") @@ args)
       ELSE IF trycastobjectId(user_id) \notin DOMAIN users
       THEN Step(c, Returned("Crash") @@ args)
       ELSE IF users[trycastobjectId(user_id)].role # "user"
       THEN Step(c, Returned("RoleNotEligible") @@ args)
       ELSE Step(c, Awaited("find_permission") @@ args
                    @@ [uid |-> Str(trycastobjectId(user_id)),
                        user |-> users[trycastobjectId(user_id)]])

\* lines 345-355: await get_permission_by_endpoint_from_MongoDB, the
\* membership test and the increment of the coroutine's own copy
FindPermission(c) ==
    /\ calls[c].pc = "find_permission"
    /\ UNCHANGED <<permissions, plans, users, last>>
    /\ IF ~calls[c].user.current_api_usage.some THEN Step(c, Returned("Crash"))
       ELSE IF \/ calls[c].perm \notin DOMAIN calls[c].user.current_api_usage.m
               \/ get_permission_by_endpoint_from_MongoDB(calls[c].endpoint) = {}
       THEN Step(c, Returned("NotValidPermission"))
       ELSE Step(c, Awaited("find_one_and_update")
                    @@ [user |-> Increment(calls[c].user, calls[c].perm)])

\* lines 358-365, and the same write at lines 258-265 and 405-412:
\* await find_one_and_update({"_id": ...}, {"$set": user})
FindOneAndUpdate(c) ==
    /\ calls[c].pc = "find_one_and_update"
    /\ UNCHANGED <<permissions, plans, last>>
    /\ IF trycastobjectId(calls[c].uid) \notin DOMAIN users
       THEN Step(c, Returned("StoreFailure")) /\ UNCHANGED users
       ELSE /\ users' = SetUser(trycastobjectId(calls[c].uid), calls[c].user)
            /\ Step(c, Returned("OK"))

ConcPermissionObjects == {ConcPermission, [ConcPermission EXCEPT !.id = <<3, "upper">>]}

NextConc ==
    \/ \E c \in DOMAIN calls, user_id \in {Str(1), Str(2)}, permission \in ConcPermissionObjects :
           FindUser(c, user_id, permission)
    \/ \E c \in DOMAIN calls : FindPermission(c)
    \/ \E c \in DOMAIN calls : FindOneAndUpdate(c)

SpecConc == InitConc /\ [][NextConc]_vars

\* --------------------------------- every handler, await by await (SpecRace)
\* stores the sequential operations reach: nothing; one permission; a plan
\* over it; user 1 subscribed to the plan with one call recorded
InitRace ==
    /\ permissions \in {<<>>, 3 :> [name |-> "RandomAPI1", endpoint |-> "random1",
                                    description |-> "RandomAPI1 description"]}
    /\ plans \in {<<>>, 4 :> [name |-> "RandomAPIPlan1", apilimit |-> (Str(3) :> MaxLimit)]}
    /\ users \in {[o \in UserOids |->
                     [role |-> RoleOf(o), subscribed_plan_id |-> NoneId,
                      current_api_usage |-> Absent]],
                  [o \in UserOids |->
                     IF o = 1
                     THEN [role |-> "user", subscribed_plan_id |-> Str(4),
                           current_api_usage |-> Some(Str(3) :> 1)]
                     ELSE [role |-> RoleOf(o), subscribed_plan_id |-> NoneId,
                           current_api_usage |-> Absent]]}
    /\ DOMAIN plans # {} => DOMAIN permissions # {}
    /\ users[1].subscribed_plan_id # NoneId => DOMAIN plans # {}
    /\ last = [op |-> "init", res |-> "OK"]
    /\ calls = [c \in 1..NumTasks |-> Idle]

\* add_permission_to_MongoDB, line 78: await get_permission_by_endpoint
AddPermissionFind(c, permission) ==
    /\ calls[c].pc = "idle"
    /\ UNCHANGED <<store, last>>
    /\ LET args == [op |-> "createPermission", permission |-> permission] IN
       IF get_permission_by_endpoint_from_MongoDB(permission.endpoint) # {}
       THEN Step(c, Returned("DuplicateEndpoint") @@ args)
       ELSE Step(c, Awaited("insert_permission") @@ args)

\* line 84: await permissions_collection.insert_one
AddPermissionInsert(c) ==
    /\ calls[c].pc = "insert_permission"
    /\ nextOid <= MaxOid
    /\ permissions' = permissions @@ (nextOid :> calls[c].permission)
    /\ Step(c, Returned("OK"))
    /\ UNCHANGED <<plans, users, last>>

\* modify_permission_to_MongoDB, lines 91-93 and 101: await find_one by _id
ModifyPermissionFind(c, id, permission) ==
    /\ calls[c].pc = "idle"
    /\ UNCHANGED <<store, last>>
    /\ LET args == [op |-> "updatePermission", id |-> id, permission |-> permission] IN
       IF InvalidId(id) THEN Step(c, Raised("InvalidIdentifier") @@ args)
       ELSE IF trycastobjectId(id) \notin DOMAIN permissions
       THEN Step(c, Returned("NotFound") @@ args)
       ELSE Step(c, Awaited("find_plan") @@ args
                    @@ [endpoint |-> permissions[trycastobjectId(id)].endpoint])

\* lines 96-103: await plans_collection.find_one, then the endpoint test
ModifyPermissionFindPlan(c) ==
    /\ calls[c].pc = "find_plan"
    /\ UNCHANGED <<store, last>>
    /\ IF used_by_existing_plan(trycastobjectId(calls[c].id)) # {}
       THEN Step(c, Returned("PermissionInUse"))
       ELSE IF calls[c].endpoint # calls[c].permission.endpoint
       THEN Step(c, Awaited("find_endpoint"))
       ELSE Step(c, Awaited("update_permission"))

\* lines 107-109: await get_permission_by_endpoint of the new endpoint
ModifyPermissionFindEndpoint(c) ==
    /\ calls[c].pc = "find_endpoint"
    /\ UNCHANGED <<store, last>>
    /\ IF get_permission_by_endpoint_from_MongoDB(calls[c].permission.endpoint) # {}
       THEN Step(c, Returned("DuplicateEndpoint"))
       ELSE Step(c, Awaited("update_permission"))

\* lines 116-123: await find_one_and_update; None is the 500
ModifyPermissionUpdate(c) ==
    /\ calls[c].pc = "update_permission"
    /\ UNCHANGED <<plans, users, last>>
    /\ IF trycastobjectId(calls[c].id) \notin DOMAIN permissions
       THEN Step(c, Returned("StoreFailure")) /\ UNCHANGED permissions
       ELSE /\ permissions' = [permissions EXCEPT ![trycastobjectId(calls[c].id)] =
                                   calls[c].permission]
            /\ Step(c, Returned("OK"))

\* delete_permission_in_MongoDB, lines 130-133: await plans_collection.find_one
DeletePermissionFindPlan(c, id) ==
    /\ calls[c].pc = "idle"
    /\ UNCHANGED <<store, last>>
    /\ LET args == [op |-> "deletePermission", id |-> id] IN
       IF InvalidId(id) THEN Step(c, Raised("InvalidIdentifier") @@ args)
       ELSE IF used_by_existing_plan(trycastobjectId(id)) # {}
       THEN Step(c, Returned("PermissionInUse") @@ args)
       ELSE Step(c, Awaited("delete_permission") @@ args)

\* lines 135-140: await delete_one, deleted_count
DeletePermissionDeleteOne(c) ==
    /\ calls[c].pc = "delete_permission"
    /\ UNCHANGED <<plans, users, last>>
    /\ IF trycastobjectId(calls[c].id) \notin DOMAIN permissions
       THEN Step(c, Returned("NotFound")) /\ UNCHANGED permissions
       ELSE /\ permissions' = Remove(permissions, trycastobjectId(calls[c].id))
            /\ Step(c, Returned("OK"))

\* add_plan_to_MongoDB, lines 160-161: the length test, before any await
AddPlanLength(c, plan) ==
    /\ calls[c].pc = "idle"
    /\ UNCHANGED <<store, last>>
    /\ LET args == [op |-> "createPlan", plan |-> plan, keys |-> DOMAIN plan.apilimit] IN
       IF DOMAIN plan.apilimit = {}
       THEN Step(c, Raised("EmptyLimitTable") @@ args)
       ELSE Step(c, [pc |-> "find_permissions"] @@ args)

\* one round of the loop of lines 164-167 and of lines 195-198: trycastobjectId
\* of the next key, then await permissions_collection.find_one
FindPermissions(c) ==
    /\ calls[c].pc = "find_permissions"
    /\ UNCHANGED <<store, last>>
    /\ \E k \in calls[c].keys :
          IF InvalidId(k) THEN Step(c, Raised("InvalidIdentifier"))
          ELSE IF trycastobjectId(k) \notin DOMAIN permissions
          THEN Step(c, Returned("UnknownPermission"))
          ELSE IF calls[c].keys # {k}
          THEN Step(c, Awaited("find_permissions") @@ [keys |-> calls[c].keys \ {k}])
          ELSE Step(c, Awaited(IF calls[c].op = "createPlan" THEN "insert_plan"
                                ELSE "update_plan") @@ [keys |-> {}])

\* line 171: await plans_collection.insert_one
AddPlanInsert(c) ==
    /\ calls[c].pc = "insert_plan"
    /\ nextOid <= MaxOid
    /\ plans' = plans @@ (nextOid :> calls[c].plan)
    /\ Step(c, Returned("OK"))
    /\ UNCHANGED <<permissions, users, last>>

\* modify_plan_to_MongoDB, line 184: await get_plan_by_id_MongoDB
ModifyPlanGetPlan(c, id, plan) ==
    /\ calls[c].pc = "idle"
    /\ UNCHANGED <<store, last>>
    /\ LET args == [op |-> "updatePlan", plan_id |-> id, plan |-> plan,
                    keys |-> DOMAIN plan.apilimit] IN
       IF InvalidId(id) THEN Step(c, Raised("InvalidIdentifier") @@ args)
       ELSE IF trycastobjectId(id) \notin DOMAIN plans
       THEN Step(c, Returned("NotFound") @@ args)
       ELSE Step(c, Awaited("find_subscriber") @@ args)

\* lines 189-192: await user_collection.find_one({"subscribed_plan_id": id})
ModifyPlanFindUser(c) ==
    /\ calls[c].pc = "find_subscriber"
    /\ UNCHANGED <<store, last>>
    /\ IF used_by_existing_user(calls[c].plan_id) # {}
       THEN Step(c, Returned("PlanInUse"))
       ELSE IF calls[c].keys = {} THEN Step(c, Awaited("update_plan"))
       ELSE Step(c, Awaited("find_permissions"))

\* lines 205-212: await find_one_and_update; None is the 500
ModifyPlanUpdate(c) ==
    /\ calls[c].pc = "update_plan"
    /\ UNCHANGED <<permissions, users, last>>
    /\ IF trycastobjectId(calls[c].plan_id) \notin DOMAIN plans
       THEN Step(c, Returned("StoreFailure")) /\ UNCHANGED plans
       ELSE /\ plans' = [plans EXCEPT ![trycastobjectId(calls[c].plan_id)] = calls[c].plan]
            /\ Step(c, Returned("OK"))

\* delete_plan_in_MongoDB, lines 219-222: await user_collection.find_one with
\* the id as it was supplied
DeletePlanFindUser(c, id) ==
    /\ calls[c].pc = "idle"
    /\ UNCHANGED <<store, last>>
    /\ LET args == [op |-> "deletePlan", plan_id |-> id] IN
       IF used_by_existing_user(id) # {}
       THEN Step(c, Returned("PlanInUse") @@ args)
       ELSE Step(c, Awaited("delete_plan") @@ args)

\* lines 225-229: trycastobjectId, await delete_one, deleted_count
DeletePlanDeleteOne(c) ==
    /\ calls[c].pc = "delete_plan"
    /\ UNCHANGED <<permissions, users, last>>
    /\ IF InvalidId(calls[c].plan_id)
       THEN Step(c, Raised("InvalidIdentifier")) /\ UNCHANGED plans
       ELSE IF trycastobjectId(calls[c].plan_id) \notin DOMAIN plans
       THEN Step(c, Returned("NotFound")) /\ UNCHANGED plans
       ELSE /\ plans' = Remove(plans, trycastobjectId(calls[c].plan_id))
            /\ Step(c, Returned("OK"))

\* the route POST /subscriptions/: get_current_user hands the body the user
\* document of the token, CheckedRoleIs(["user"]) raises on another role
SubscribeRoute(c, planId, u) ==
    /\ calls[c].pc = "idle"
    /\ UNCHANGED <<store, last>>
    /\ LET args == [op |-> "subscribe", plan_id |-> planId, uid |-> Str(u),
                    user |-> users[u]] IN
       IF users[u].role \notin {"user"}
       THEN Step(c, Raised("RoleNotEligible") @@ args)
       ELSE Step(c, [pc |-> "get_plan"] @@ args)

\* subscribe_to_plan_in_MongoDB, lines 238-240: await get_plan_by_id_MongoDB
SubscribeGetPlan(c) ==
    /\ calls[c].pc = "get_plan"
    /\ UNCHANGED <<store, last>>
    /\ IF InvalidId(calls[c].plan_id) THEN Step(c, Raised("InvalidIdentifier"))
       ELSE IF trycastobjectId(calls[c].plan_id) \notin DOMAIN plans
       THEN Step(c, Returned("NotFound"))
       ELSE Step(c, Awaited("get_user")
                    @@ [plan |-> plans[trycastobjectId(calls[c].plan_id)]])

\* lines 243-255: await get_user_by_id_from_MongoDB, then the new plan id and
\* the zero counters in the coroutine's own copy of the user
SubscribeGetUser(c) ==
    /\ calls[c].pc = "get_user"
    /\ UNCHANGED <<store, last>>
    /\ IF InvalidId(calls[c].uid) THEN Step(c, Raised("InvalidIdentifier"))
       ELSE IF trycastobjectId(calls[c].uid) \notin DOMAIN users
       THEN Step(c, Returned("NotFound"))
       ELSE Step(c, Awaited("find_one_and_update")
                    @@ [user_found_by_id |-> users[trycastobjectId(calls[c].uid)],
                        user |-> [calls[c].user EXCEPT
                                    !.subscribed_plan_id = calls[c].plan_id,
                                    !.current_api_usage =
                                        Some(ZeroUsage(calls[c].plan.apilimit))]])

\* update_user_API_plan, lines 372-396 and 417: await get_user_by_id, the
\* checks, and either the new table in the coroutine's copy or the call of
\* subscribe_to_plan_in_MongoDB
UpdateUserPlanGetUser(c, user_id, plan_id, new_usage_stats) ==
    /\ calls[c].pc = "idle"
    /\ UNCHANGED <<store, last>>
    /\ LET args == [op |-> "changePlan", id |-> user_id, plan_id |-> plan_id] IN
       IF InvalidId(user_id) THEN Step(c, Raised("InvalidIdentifier") @@ args)
       ELSE IF trycastobjectId(user_id) \notin DOMAIN users
       THEN Step(c, Returned("NotFound") @@ args)
       ELSE LET user == users[trycastobjectId(user_id)]
                read == args @@ [uid |-> Str(trycastobjectId(user_id)), user |-> user] IN
       IF user.role # "user" THEN Step(c, Returned("RoleNotEligible") @@ read)
       ELSE IF user.subscribed_plan_id = NoneId
       THEN Step(c, Returned("NotSubscribed") @@ read)
       ELSE IF user.subscribed_plan_id = plan_id
       THEN IF usage_stats_mismatch(user, new_usage_stats)
            THEN Step(c, Returned("UsageKeySetMismatch") @@ read)
            ELSE Step(c, Awaited("find_one_and_update")
                         @@ [user |-> [user EXCEPT !.current_api_usage = new_usage_stats]]
                         @@ read)
       ELSE Step(c, Awaited("get_plan") @@ read)

\* the handlers of the permission and plan routes
RaceCatalog ==
    \/ \E c \in DOMAIN calls, permission \in PermissionInputs :
           AddPermissionFind(c, permission)
    \/ \E c \in DOMAIN calls : AddPermissionInsert(c)
    \/ \E c \in DOMAIN calls, id \in PermIdInputs, permission \in PermissionInputs :
           ModifyPermissionFind(c, id, permission)
    \/ \E c \in DOMAIN calls : ModifyPermissionFindPlan(c)
    \/ \E c \in DOMAIN calls : ModifyPermissionFindEndpoint(c)
    \/ \E c \in DOMAIN calls : ModifyPermissionUpdate(c)
    \/ \E c \in DOMAIN calls, id \in PermIdInputs : DeletePermissionFindPlan(c, id)
    \/ \E c \in DOMAIN calls : DeletePermissionDeleteOne(c)
    \/ \E c \in DOMAIN calls, plan \in PlanInputs : AddPlanLength(c, plan)
    \/ \E c \in DOMAIN calls : FindPermissions(c)
    \/ \E c \in DOMAIN calls : AddPlanInsert(c)
    \/ \E c \in DOMAIN calls, id \in PlanIdInputs, body \in PlanBodies :
           ModifyPlanGetPlan(c, id, UpdateAPIPlan(body))
    \/ \E c \in DOMAIN calls : ModifyPlanFindUser(c)
    \/ \E c \in DOMAIN calls : ModifyPlanUpdate(c)
    \/ \E c \in DOMAIN calls, id \in PlanIdInputs : DeletePlanFindUser(c, id)
    \/ \E c \in DOMAIN calls : DeletePlanDeleteOne(c)

\* the handlers that write the users collection
RaceUsers ==
    \/ \E c \in DOMAIN calls, planId \in PlanIdInputs, u \in DOMAIN users :
           SubscribeRoute(c, planId, u)
    \/ \E c \in DOMAIN calls : SubscribeGetPlan(c)
    \/ \E c \in DOMAIN calls : SubscribeGetUser(c)
    \/ \E c \in DOMAIN calls, user_id \in UserIdInputs, plan_id \in PlanIdInputs :
           \E stats \in StatsInputs(user_id, plan_id) :
               UpdateUserPlanGetUser(c, user_id, plan_id, stats)
    \/ \E c \in DOMAIN calls, user_id \in UserIdInputs, permission \in PermissionObjects :
           FindUser(c, user_id, permission)
    \/ \E c \in DOMAIN calls : FindPermission(c)
    \/ \E c \in DOMAIN calls : FindOneAndUpdate(c)

NextRace == RaceCatalog \/ RaceUsers

SpecRace == InitRace /\ [][NextRace]_vars

\* ----------------------------------- richer stores (SpecLoaded, SpecRaceLoaded)
\* stores the operations reach when more documents exist than Spec's bound
\* lets it create: one "user" subscribed to the first of two plans over one
\* permission with one call recorded; or two permissions and a plan over the
\* first of them
InitLoaded ==
    /\ \/ /\ permissions = (2 :> [name |-> "RandomAPI1", endpoint |-> "random1",
                                  description |-> "RandomAPI1 description"])
          /\ plans = [p \in {3, 4} |->
                         [name |-> "RandomAPIPlan1", apilimit |-> (Str(2) :> MaxLimit)]]
          /\ users = (1 :> [role |-> "user", subscribed_plan_id |-> Str(3),
                            current_api_usage |-> Some(Str(2) :> 1)])
       \/ /\ permissions = [o \in {2, 3} |->
                               [name |-> "RandomAPI1",
                                endpoint |-> IF o = 2 THEN "random1" ELSE "random2",
                                description |-> "RandomAPI1 description"]]
          /\ plans = (4 :> [name |-> "RandomAPIPlan1", apilimit |-> (Str(2) :> MaxLimit)])
          /\ users = (1 :> [role |-> "user", subscribed_plan_id |-> NoneId,
                            current_api_usage |-> Absent])
    /\ last = [op |-> "init", res |-> "OK"]
    /\ calls = [c \in 1..NumTasks |-> Idle]

\* the operations on stored documents that leave the limit tables of the
\* plans as they are, one request at a time
NextLoaded ==
    \/ UpdatePermission
    \/ DeletePermission
    \/ DeletePlan
    \/ Subscribe
    \/ ChangePlan
    \/ RecordUsage
    \/ Admit

SpecLoaded == InitLoaded /\ [][NextLoaded]_vars

SpecRaceLoaded == InitLoaded /\ [][RaceUsers]_vars

\* ================================================================== claims
\* key k of an apilimit or usage table denotes the ObjectId oid
Denotes(k, oid) == ~InvalidId(k) /\ ObjectId(k) = oid

KeySet(table) == IF table.some THEN DOMAIN table.m ELSE {}

\* C1: after any sequence of createPermission, updatePermission and
\* deletePermission operations, successful or failed, no two distinct stored
\* Permissions have the same endpoint.
C1_UniqueEndpoint ==
    \A a, b \in DOMAIN permissions :
        a # b => permissions[a].endpoint # permissions[b].endpoint

C1_Witness ==
    /\ Cardinality(DOMAIN permissions) = 2
    /\ last.op = "updatePermission"
    /\ last.res = "DuplicateEndpoint"

\* C2: once NumCallers concurrent recordUsage calls for user 1 and the same
\* permission have all returned success, the stored counter is NumCallers
\* higher than the 0 it started at: no increment is lost.
C2_NoLostUpdate ==
    (\A c \in DOMAIN calls :
        calls[c].pc = "done" /\ calls[c].res = "OK" /\ calls[c].perm = ConcPermission.id)
        => users[1].current_api_usage.m[ConcPermission.id] = NumCallers

\* C3: deletePermission(id) on a stored Permission fails with PermissionInUse
\* and leaves the Permission stored whenever some Plan's apilimit has a key
\* denoting it, and succeeds and removes it when no Plan references it.
C3_DeleteBlockedWhileReferenced ==
    [][last'.op = "deletePermission" => \A id \in PermIdInputs :
          (/\ ~InvalidId(id)
           /\ ObjectId(id) \in DOMAIN permissions
           /\ delete_permission_in_MongoDB(id))
          => IF \E p \in DOMAIN plans : \E k \in DOMAIN plans[p].apilimit :
                    Denotes(k, ObjectId(id))
             THEN last'.res = "PermissionInUse" /\ permissions' = permissions
             ELSE last'.res = "OK" /\ ObjectId(id) \notin DOMAIN permissions']_vars

\* C4: updatePlan(id, ...) and deletePlan(id) fail with PlanInUse and leave
\* the Plan document unchanged whenever some User has subscribed_plan_id
\* equal to id (for updatePlan: id being the id of a stored Plan, which it
\* loads first).
C4_PlanInUse ==
    [][last'.op \in {"updatePlan", "deletePlan"} => \A id \in PlanIdInputs :
          used_by_existing_user(id) # {}
          => /\ delete_plan_in_MongoDB(id)
                => last'.res = "PlanInUse" /\ plans' = plans
             /\ \A p \in PlanInputs :
                  (get_plan_by_id_MongoDB(id) = "OK" /\ modify_plan_to_MongoDB(id, p))
                  => last'.res = "PlanInUse" /\ plans' = plans]_vars

C4_Witness ==
    /\ last.op = "updatePlan"
    /\ last.res = "PlanInUse"
    /\ \E u \in DOMAIN users :
          get_plan_by_id_MongoDB(users[u].subscribed_plan_id) = "OK"

\* C5: after a successful subscribe(u, p), whatever counters and plan u had
\* before, u.subscribed_plan_id is p and u.current_api_usage has exactly
\* the keys of p.apilimit, every counter 0.
C5_SubscribeResets ==
    [][last'.op = "subscribe" => \A u \in DOMAIN users, p \in PlanIdInputs :
          (subscribe_plan(p, UserObject(u)) /\ last'.res = "OK")
          => /\ users'[u].subscribed_plan_id = p
             /\ users'[u].current_api_usage.some
             /\ DOMAIN users'[u].current_api_usage.m
                    = DOMAIN plans[ObjectId(p)].apilimit
             /\ \A k \in DOMAIN users'[u].current_api_usage.m :
                    users'[u].current_api_usage.m[k] = 0]_vars

C5_Witness ==
    /\ last.op = "subscribe"
    /\ last.res = "OK"
    /\ Cardinality(KeySet(users[1].current_api_usage)) = 2

\* C6: changePlan(u, planId, proposed) with planId equal to u's current plan
\* and a proposed table whose key set differs from that of u's counters
\* fails with UsageKeySetMismatch and leaves the stored users unchanged.
C6_KeySetMismatch ==
    [][last'.op = "changePlan" => \A user_id \in UserIdInputs, plan_id \in PlanIdInputs :
          SamePlan(user_id, plan_id) => \A stats \in UsageInputs :
              (/\ KeySet(stats) # KeySet(users[ObjectId(user_id)].current_api_usage)
               /\ update_user_API_plan(user_id, plan_id, stats))
              => last'.res = "UsageKeySetMismatch" /\ users' = users]_vars

C6_Witness ==
    /\ last.op = "changePlan"
    /\ last.res = "UsageKeySetMismatch"
    /\ \E u \in DOMAIN users : Cardinality(KeySet(users[u].current_api_usage)) = 2

\* C7: createPlan with an empty apilimit fails with EmptyLimitTable and the
\* stored Plans are unchanged.
C7_EmptyLimitTable ==
    [][last'.op = "createPlan" => \A p \in PlanInputs :
          (DOMAIN p.apilimit = {} /\ add_plan_to_MongoDB(p))
          => last'.res = "EmptyLimitTable" /\ plans' = plans]_vars

C7_Witness ==
    /\ last.op = "createPlan"
    /\ last.res = "EmptyLimitTable"
    /\ DOMAIN permissions # {}

\* C8: after any sequence of Catalog operations every key of every stored
\* Plan's apilimit is the identity of a stored Permission.
C8_KeysResolve ==
    \A p \in DOMAIN plans : \A k \in DOMAIN plans[p].apilimit :
        \E o \in DOMAIN permissions : Denotes(k, o)

\* C9: every User whose subscribed_plan_id is set refers to a stored Plan,
\* and the key set of its current_api_usage is the key set of that Plan's
\* apilimit.
C9_SubscriptionIntegrity ==
    \A u \in DOMAIN users :
        users[u].subscribed_plan_id # NoneId
        => /\ get_plan_by_id_MongoDB(users[u].subscribed_plan_id) = "OK"
           /\ KeySet(users[u].current_api_usage)
                  = DOMAIN plans[ObjectId(users[u].subscribed_plan_id)].apilimit

\* C10: for every subscribed User and every key k of its counters,
\* current_api_usage[k] is at most the subscribed Plan's apilimit[k].
C10_WithinLimit ==
    \A u \in DOMAIN users :
        get_plan_by_id_MongoDB(users[u].subscribed_plan_id) = "OK"
        => \A k \in KeySet(users[u].current_api_usage) :
              k \in DOMAIN plans[ObjectId(users[u].subscribed_plan_id)].apilimit
              => users[u].current_api_usage.m[k]
                     <= plans[ObjectId(users[u].subscribed_plan_id)].apilimit[k]

\* coroutine c ran operation op (one of ops) to a successful return
Succeeded(c, ops) ==
    calls[c].op \in ops /\ calls[c].pc = "done" /\ calls[c].res = "OK"

\* C11: when a subscribe(u, p), or a changePlan that moved u to p, and a
\* concurrent deletePlan(p) or updatePlan(p) have both succeeded, u's
\* subscribed_plan_id refers to a stored Plan whose apilimit key set is the
\* key set of u's counters.
C11_SubscribeRacesPlanChange ==
    \A s, d \in DOMAIN calls :
        (/\ Succeeded(s, {"subscribe", "changePlan"})
         /\ DOMAIN calls[s].plan.apilimit # {}
         /\ Succeeded(d, {"deletePlan", "updatePlan"})
         /\ calls[d].plan_id = calls[s].plan_id)
        => LET user == users[ObjectId(calls[s].uid)] IN
           /\ get_plan_by_id_MongoDB(user.subscribed_plan_id) = "OK"
           /\ KeySet(user.current_api_usage)
                  = DOMAIN plans[ObjectId(user.subscribed_plan_id)].apilimit

\* C12: when a createPlan or updatePlan and a concurrent deletePermission
\* have both succeeded, every key of every stored Plan's apilimit (written
\* the way str(ObjectId) prints it, the way deletePermission looks it up)
\* is the identity of a stored Permission.
C12_PlanWriteRacesDeletePermission ==
    \A w, d \in DOMAIN calls :
        (Succeeded(w, {"createPlan", "updatePlan"}) /\ Succeeded(d, {"deletePermission"}))
        => \A p \in DOMAIN plans : \A k \in DOMAIN plans[p].apilimit :
               k = Str(ObjectId(k)) => ObjectId(k) \in DOMAIN permissions

\* C13: of two concurrent createPermission or endpoint-changing
\* updatePermission operations for one endpoint value at most one succeeds,
\* and no two stored Permissions ever share an endpoint.
C13_EndpointRace ==
    /\ \A a, b \in DOMAIN calls :
          (/\ a # b
           /\ Succeeded(a, {"createPermission", "updatePermission"})
           /\ Succeeded(b, {"createPermission", "updatePermission"})
           /\ calls[a].endpoint # calls[a].permission.endpoint
           /\ calls[b].endpoint # calls[b].permission.endpoint)
          => calls[a].permission.endpoint # calls[b].permission.endpoint
    /\ \A x, y \in DOMAIN permissions :
          permissions[x].endpoint = permissions[y].endpoint => x = y

\* the user document after subscribe s and recordUsage r ran one after the
\* other: the zero counters of the plan s read, and the call of r on top of
\* them when r ran second
SerialOutcomes(s, r) ==
    LET zero == ZeroUsage(calls[s].plan.apilimit)
        subscribed == [role |-> calls[s].user.role,
                       subscribed_plan_id |-> calls[s].plan_id,
                       current_api_usage |-> Some(zero)] IN
    {subscribed}
        \cup (IF calls[r].perm \in DOMAIN zero
              THEN {Increment(subscribed, calls[r].perm)} ELSE {})

\* C14: when a subscribe (or plan-changing changePlan) and a concurrent
\* recordUsage on the same user have both succeeded, the stored User
\* document is the one a serial run of the two in some order leaves.
C14_SubscribeRacesRecordUsage ==
    \A s, r \in DOMAIN calls :
        (/\ Succeeded(s, {"subscribe", "changePlan"})
         /\ DOMAIN calls[s].plan.apilimit # {}
         /\ Succeeded(r, {"recordUsage"})
         /\ calls[r].uid = calls[s].uid)
        => users[ObjectId(calls[s].uid)] \in SerialOutcomes(s, r)

\* C15: a request whose caller-supplied identifier is malformed returns
\* InvalidIdentifier and issues no store command: at no await has a
\* coroutine with a malformed id or plan_id accessed the store.
C15_ValidatedBeforeStore ==
    \A c \in DOMAIN calls :
        (calls[c].id = Malformed \/ calls[c].plan_id = Malformed)
        => /\ ~calls[c].accessed
           /\ calls[c].pc = "done" => calls[c].res = "InvalidIdentifier"

\* C16: an invocation of any mutation entry point that returns a failure
\* leaves the three collections permissions, plans and users exactly as they
\* were before the call.
C16_FailureWritesNothing ==
    [][last'.res # "OK" => store' = store]_vars

C16_Witness ==
    /\ last.op = "updatePlan"
    /\ last.res = "UnknownPermission"
    /\ \E p \in DOMAIN plans : \A u \in DOMAIN users :
          ~Denotes(users[u].subscribed_plan_id, p)

\* C17: updatePermission(id, fields) that leaves the endpoint of the stored
\* Permission unchanged succeeds even when some Plan's apilimit has a key
\* denoting id.
C17_UpdateNotBlockedByPlans ==
    [][last'.op = "updatePermission" =>
          \A id \in PermIdInputs, body \in PermissionBodies :
              (/\ ~InvalidId(id)
               /\ ObjectId(id) \in DOMAIN permissions
               /\ UpdateAPIPermission(body).endpoint = permissions[ObjectId(id)].endpoint
               /\ \E p \in DOMAIN plans : \E k \in DOMAIN plans[p].apilimit :
                      Denotes(k, ObjectId(id))
               /\ modify_permission_to_MongoDB(id, UpdateAPIPermission(body)))
              => last'.res = "OK"]_vars

\* C18: a successful updatePermission(id, body) keeps the stored value of
\* every field the body does not supply, keeps the set of stored identities
\* and modifies no other Permission.
C18_PartialUpdate ==
    [][last'.op = "updatePermission" /\ last'.res = "OK" =>
          \A id \in PermIdInputs, body \in PermissionBodies :
              modify_permission_to_MongoDB(id, UpdateAPIPermission(body))
              => /\ DOMAIN permissions' = DOMAIN permissions
                 /\ \A o \in DOMAIN permissions \ {ObjectId(id)} :
                        permissions'[o] = permissions[o]
                 /\ \A f \in {"name", "endpoint", "description"} \ DOMAIN body :
                        permissions'[ObjectId(id)][f] = permissions[ObjectId(id)][f]]_vars

\* C19: updatePlan(id, body) on a stored Plan no User is subscribed to, with
\* a body that supplies no apilimit, succeeds and leaves the stored apilimit
\* unchanged.
C19_UpdateWithoutApilimit ==
    [][last'.op = "updatePlan" =>
          \A id \in PlanIdInputs, body \in PlanBodies :
              (/\ get_plan_by_id_MongoDB(id) = "OK"
               /\ \A u \in DOMAIN users :
                      ~Denotes(users[u].subscribed_plan_id, ObjectId(id))
               /\ "apilimit" \notin DOMAIN body
               /\ modify_plan_to_MongoDB(id, UpdateAPIPlan(body)))
              => /\ last'.res = "OK"
                 /\ plans'[ObjectId(id)].apilimit = plans[ObjectId(id)].apilimit]_vars

\* C20: subscribe and changePlan for a stored User whose role is not "user"
\* fail with RoleNotEligible and write nothing, and in every reachable state
\* no User with another role than "user" has subscribed_plan_id set.
C20_RoleNotEligible ==
    /\ [](\A u \in DOMAIN users :
             users[u].role # "user" => users[u].subscribed_plan_id = NoneId)
    /\ [][last'.op \in {"subscribe", "changePlan"} =>
              \A u \in DOMAIN users : users[u].role # "user" =>
                  \A plan_id \in PlanIdInputs :
                      /\ subscribe_plan(plan_id, UserObject(u))
                            => last'.res = "RoleNotEligible" /\ store' = store
                      /\ \A user_id \in Spellings({u}) :
                            \A stats \in StatsInputs(user_id, plan_id) :
                                update_user_API_plan(user_id, plan_id, stats)
                                => last'.res = "RoleNotEligible" /\ store' = store]_vars

C20_Witness ==
    /\ last.op = "subscribe"
    /\ last.res = "RoleNotEligible"
    /\ DOMAIN plans # {}

\* coroutine c of subscribe or changePlan is at the write of lines 258-262
\* with the zero counters it built, and the stored User document no longer
\* has the subscribed_plan_id that c read at line 243
StaleReinitialisation(c) ==
    /\ calls[c].op \in {"subscribe", "changePlan"}
    /\ calls[c].pc = "find_one_and_update"
    /\ calls[c].user_found_by_id.role # ""
    /\ users[ObjectId(calls[c].uid)].subscribed_plan_id
           # calls[c].user_found_by_id.subscribed_plan_id

\* C21: the counter-reinitialisation write of subscribe/changePlan is not
\* applied when the User document changed after it was read: the step
\* leaves users as they are and answers ConcurrentModification (retried) or,
\* after the bounded retries, StoreUnavailable.
C21_ConditionalWrite ==
    [][\A c \in DOMAIN calls :
          (StaleReinitialisation(c) /\ calls'[c].pc # calls[c].pc)
          => /\ users' = users
             /\ calls'[c].res \in {"ConcurrentModification", "StoreUnavailable"}
                   \/ calls'[c].pc # "done"]_vars

C23_NotFound ==
    [][last'.op = "recordUsage" =>
        \A user_id \in UserIdInputs, permission \in PermissionObjects :
          (/\ ~InvalidId(user_id)
           /\ \/ ObjectId(user_id) \notin DOMAIN users
              \/ /\ users[ObjectId(user_id)].role = "user"
                 /\ get_permission_by_endpoint_from_MongoDB(permission.endpoint) = {}
           /\ update_user_API_usage_in_MongoDB(user_id, permission))
          => last'.res = "NotFound"]_vars

\* C24: a successful changePlan(u, newPlanId, proposed) with newPlanId other
\* than u's stored subscribed_plan_id leaves u exactly as subscribe(u,
\* newPlanId) does: subscribed_plan_id is newPlanId and the counters are 0
\* over the keys of the new Plan's apilimit, whatever proposed holds; with
\* newPlanId the stored subscribed_plan_id and proposed of the same key set,
\* the counters become proposed and subscribed_plan_id is unchanged.
C24_ChangePlan ==
    [][last'.op = "changePlan" =>
        \A user_id \in UserIdInputs, plan_id \in PlanIdInputs :
          \A stats \in StatsInputs(user_id, plan_id) :
            (update_user_API_plan(user_id, plan_id, stats) /\ last'.res = "OK")
            => LET u == ObjectId(user_id) IN
               IF users[u].subscribed_plan_id # plan_id
               THEN /\ users'[u].subscribed_plan_id = plan_id
                    /\ users'[u].current_api_usage
                           = Some(ZeroUsage(plans[ObjectId(plan_id)].apilimit))
                    /\ users'[u].role = users[u].role
                    /\ \A v \in DOMAIN users \ {u} : users'[v] = users[v]
               ELSE /\ KeySet(stats) = KeySet(users[u].current_api_usage)
                    /\ users'[u].current_api_usage = stats
                    /\ users'[u].subscribed_plan_id = users[u].subscribed_plan_id]_vars

\* the user of plan 3, one call counted, has moved to plan 4 by changePlan
C24_Witness ==
    /\ last.op = "changePlan"
    /\ last.res = "OK"
    /\ 3 \in DOMAIN plans
    /\ users[1].subscribed_plan_id = Str(4)
    /\ users[1].current_api_usage = Some(Str(2) :> 0)

\* C25: updatePermission(id, fields) whose endpoint differs from the stored
\* Permission's and is held by another stored Permission fails with
\* DuplicateEndpoint and leaves the store unchanged; an update whose endpoint
\* is the Permission's own is never answered DuplicateEndpoint.
C25_DuplicateEndpoint ==
    [][last'.op = "updatePermission" =>
          \A id \in PermIdInputs, body \in PermissionBodies :
              (/\ ~InvalidId(id)
               /\ ObjectId(id) \in DOMAIN permissions
               /\ modify_permission_to_MongoDB(id, UpdateAPIPermission(body)))
              => IF UpdateAPIPermission(body).endpoint = permissions[ObjectId(id)].endpoint
                 THEN last'.res # "DuplicateEndpoint"
                 ELSE (\E o \in DOMAIN permissions \ {ObjectId(id)} :
                          permissions[o].endpoint = UpdateAPIPermission(body).endpoint)
                      => /\ last'.res = "DuplicateEndpoint"
                         /\ UNCHANGED <<permissions, plans, users>>]_vars

\* C26 (as stated): plan 3 is stored only in the store where user 1 has
\* subscribed to it; no deletePlan of it ever succeeds afterwards, whatever
\* operations came in between. Stated for the states in which no User holds
\* plan 3 under its other spelling, so that only a subscriber that has moved
\* to another Plan can refute it.
C26_DeleteBlockedForEver ==
    [][last'.op = "deletePlan" =>
          ((/\ \A u \in DOMAIN users : users[u].subscribed_plan_id # <<3, "upper">>
            /\ delete_plan_in_MongoDB(Str(3)))
           => last'.res # "OK")]_vars

\* C26 (amended): deletePlan(id) of a stored Plan fails with PlanInUse
\* exactly while some User's subscribed_plan_id equals id, and otherwise
\* succeeds and removes the Plan: a Plan is released when its subscribers have
\* moved to another Plan by subscribe or changePlan.
C26_DeleteBlockedWhileSubscribed ==
    [][last'.op = "deletePlan" => \A id \in PlanIdInputs :
          (/\ ~InvalidId(id)
           /\ ObjectId(id) \in DOMAIN plans
           /\ delete_plan_in_MongoDB(id))
          => IF \E u \in DOMAIN users : users[u].subscribed_plan_id = id
             THEN last'.res = "PlanInUse" /\ plans' = plans
             ELSE last'.res = "OK" /\ ObjectId(id) \notin DOMAIN plans']_vars

\* the subscriber of plan 3 has moved to plan 4 and plan 3 has been deleted
C26_Witness ==
    /\ last.op = "deletePlan"
    /\ last.res = "OK"
    /\ users[1].subscribed_plan_id = Str(4)
    /\ DOMAIN plans = {4}
    /\ DOMAIN permissions = {2}

\* C27: the reference checks do not depend on the spelling of an identifier:
\* for every accepted spelling id of a stored Plan's identity that some User's
\* subscribed_plan_id denotes, deletePlan(id) and updatePlan(id, ...) fail
\* with PlanInUse, and for every accepted spelling id of an identity that a
\* key of some Plan's apilimit denotes, deletePermission(id) fails with
\* PermissionInUse.
C27_SpellingIndependentGuard ==
    [][last'.op \in {"deletePlan", "updatePlan", "deletePermission"} =>
        /\ \A id \in Spellings(DOMAIN plans) :
              (\E u \in DOMAIN users : Denotes(users[u].subscribed_plan_id, ObjectId(id)))
              => /\ delete_plan_in_MongoDB(id) => last'.res = "PlanInUse"
                 /\ \A body \in PlanBodies :
                       modify_plan_to_MongoDB(id, UpdateAPIPlan(body))
                       => last'.res = "PlanInUse"
        /\ \A id \in Spellings(DOMAIN permissions) :
              (\E p \in DOMAIN plans : \E k \in DOMAIN plans[p].apilimit :
                    Denotes(k, ObjectId(id)))
              => (delete_permission_in_MongoDB(id) => last'.res = "PermissionInUse")]_vars

\* C28: the find_one_and_update of a recordUsage call leaves the stored
\* User's subscribed_plan_id, role and counter key set as they are in the
\* store at the time of the write, whatever completed since the call read
\* the User (the Plan compared by identity, so that a re-subscription under
\* another spelling of the same id does not count as a change).
C28_UsageWriteFrame ==
    [][\A c \in DOMAIN calls :
          (/\ calls[c].op = "recordUsage"
           /\ calls[c].pc = "find_one_and_update"
           /\ calls'[c].pc # calls[c].pc)
          => \A u \in DOMAIN users :
                /\ ObjectId(users'[u].subscribed_plan_id)
                       = ObjectId(users[u].subscribed_plan_id)
                /\ users'[u].role = users[u].role
                /\ KeySet(users'[u].current_api_usage)
                       = KeySet(users[u].current_api_usage)]_vars

\* C29: changePlan(u, planId, ...) on a stored User without a subscribed
\* plan fails and leaves the store unchanged, for every planId; so a User's
\* subscribed_plan_id goes from unset to set only by subscribe.
C29_FirstSubscriptionBySubscribe ==
    /\ [][last'.op = "changePlan" =>
            \A user_id \in UserIdInputs, plan_id \in PlanIdInputs :
              \A stats \in StatsInputs(user_id, plan_id) :
                (/\ ~InvalidId(user_id)
                 /\ ObjectId(user_id) \in DOMAIN users
                 /\ users[ObjectId(user_id)].subscribed_plan_id = NoneId
                 /\ update_user_API_plan(user_id, plan_id, stats))
                => /\ last'.res \in {"NotSubscribed", "RoleNotEligible"}
                   /\ UNCHANGED <<permissions, plans, users>>]_vars
    /\ [][\A u \in DOMAIN users :
              (users[u].subscribed_plan_id = NoneId /\ users'[u].subscribed_plan_id # NoneId)
              => last'.op = "subscribe"]_vars

\* changePlan to a stored Plan was refused to a User that has none
C29_Witness ==
    /\ last.op = "changePlan"
    /\ last.res = "NotSubscribed"
    /\ DOMAIN plans # {}
    /\ users[1].subscribed_plan_id = NoneId
====
